---- MODULE Spec2Model ----
(***************************************************************************)
(* A model of the interceptor crate: the tracer control loop               *)
(* (Interceptor::run / on_stop), the integer argument marshalling          *)
(* (not_ptr_impl), the remote memory allocator (alloc_remote_mem,          *)
(* RemoteMem::new) and the C-string marshalling (ptr_impl,                 *)
(* read_bytes_with_nul).                                                   *)
(*                                                                         *)
(* A 64-bit value is a tuple of four 16-bit limbs, least significant       *)
(* first, so that `as` casts keep their width.                             *)
(***************************************************************************)
EXTENDS Integers, Sequences, FiniteSets, TLC

VARIABLES
    tracee,       \* pete's view of every traced task: its stop and registers
    hist,         \* per task: what the tracer saw and did at its last stops
    block_calls,  \* Interceptor.block_calls : HashMap<u64, u64>
    run_state,    \* Interceptor::run: "running" or "returned"
    num,          \* one integer argument on its way through the pre closure
    remote_mem,   \* Interceptor::remote_mem: Option<RemoteMem>
    alloc,        \* the last alloc_remote_mem call: its input and its outcome
    mem,          \* the tracee's memory: its heap block and the bytes it holds
    str,          \* the last C-string argument taken through the pre closure
    arr           \* the last array-of-C-strings argument taken through the pre closure

vars == <<tracee, hist, block_calls, run_state, num, remote_mem, alloc, mem, str, arr>>

tracerVars == <<tracee, hist, block_calls, run_state>>

allocVars == <<remote_mem, alloc>>

strVars == <<mem, str>>

marshalVars == <<num, allocVars, strVars, arr>>

----------------------------------------------------------------------------
(* Bounds *)

\* traced tasks (the spawned child and the threads it clones)
NumTracees == 2

\* the random u16 of a blocked call is 0 or one of the MaxRand largest u16 values
MaxRand == 1

----------------------------------------------------------------------------
(* 64-bit values and the integer casts of not_ptr_impl *)

U64(l0, l1, l2, l3) == <<l0, l1, l2, l3>>

Zero == U64(0, 0, 0, 0)

AllOnes == U64(65535, 65535, 65535, 65535)

\* -38 as u64: what the kernel leaves in rax for a syscall number it rejects
ENOSYS == U64(65498, 65535, 65535, 65535)

IntTypes == {"i8", "i16", "i32", "i64", "isize", "u8", "u16", "u32", "u64", "usize"}

Bits(ty) ==
    CASE ty \in {"i8", "u8"} -> 8
      [] ty \in {"i16", "u16"} -> 16
      [] ty \in {"i32", "u32"} -> 32
      [] OTHER -> 64

Signed(ty) == ty \in {"i8", "i16", "i32", "i64", "isize"}

\* the low w bits of u, the rest zero: the bit pattern of a w-bit integer
Trunc(u, w) ==
    CASE w = 8 -> U64(u[1] % 256, 0, 0, 0)
      [] w = 16 -> U64(u[1], 0, 0, 0)
      [] w = 32 -> U64(u[1], u[2], 0, 0)
      [] OTHER -> u

\* the sign bit of the w-bit pattern x
Negative(x, w) ==
    CASE w = 8 -> x[1] >= 128
      [] w = 16 -> x[1] >= 32768
      [] w = 32 -> x[2] >= 32768
      [] OTHER -> x[4] >= 32768

\* the w-bit pattern x sign-extended to 64 bits
SignExt(x, w) ==
    IF ~Negative(x, w) THEN x
    ELSE CASE w = 8 -> U64(x[1] + 65280, 65535, 65535, 65535)
           [] w = 16 -> U64(x[1], 65535, 65535, 65535)
           [] w = 32 -> U64(x[1], x[2], 65535, 65535)
           [] OTHER -> x

\* a from_u64 that keeps all 64 bits
from_u64_untruncated(ty, u) == u

\* Number::from_u64: `u as Self`
from_u64(ty, u) == Trunc(u, Bits(ty))

\* a to_u64 that zero-extends every type
to_u64_zero_extended(ty, x) == x

\* Number::to_u64: `self as u64` (sign-extends a signed type, zero-extends an unsigned one)
to_u64(ty, x) == IF Signed(ty) THEN SignExt(x, Bits(ty)) ELSE x

\* Read for an integer type: MayBePtr { inner: u as $t, origin: u }
ReadInt(ty, u) == [inner |-> from_u64(ty, u), origin |-> u]

Some(x) == [some |-> TRUE, v |-> x]

None == [some |-> FALSE, v |-> Zero]

\* Write for an integer type: v.map(|x| x as u64)
WriteInt(ty, v) == IF v.some THEN Some(to_u64(ty, v.v)) ELSE None

----------------------------------------------------------------------------
(* The static syscall table and the registered descriptors *)

\* SYSCALL_TABLE: the rows of data/syscalls_x64.tsv the model uses; the file holds
\* the x86_64 syscall numbers, none of them above 511
SYSCALL_TABLE == (8 :> "lseek") @@ (24 :> "sched_yield") @@ (39 :> "getpid")
                 @@ (56 :> "clone")

\* the name on_stop dispatches on: the table's, or the formatted "unknown (...)"
SyscallName(nr) ==
    IF nr \in DOMAIN SYSCALL_TABLE THEN SYSCALL_TABLE[nr] ELSE "unknown"

\* a syscall number the table does not hold
UnknownNr == 500

\* the numbers a traced task issues
TraceeSyscalls == DOMAIN SYSCALL_TABLE \cup {UnknownNr}

Dummy == <<"u64", "u64", "u64", "u64", "u64", "u64">>

\* Interceptor.syscalls after .on(&lseek).on(&sched_yield).on(&getpid) and the .on
\* of a second descriptor named lseek (on pushes without a look at the names): the
\* descriptors the #[syscall] macro builds, dummy slots padded with u64, in
\* registration order
syscalls ==
    << [name |-> "lseek", variant |-> "Passthrough", arity |-> 3,
        args |-> <<"u32", "i64", "u32", "u64", "u64", "u64">>,
        ret |-> "i64", post |-> "keep"],
       [name |-> "sched_yield", variant |-> "Passthrough", arity |-> 0,
        args |-> Dummy, ret |-> "i32", post |-> "fail"],
       [name |-> "getpid", variant |-> "Block", arity |-> 0,
        args |-> Dummy, ret |-> "i32", post |-> "keep"],
       [name |-> "lseek", variant |-> "Block", arity |-> 0,
        args |-> Dummy, ret |-> "i64", post |-> "fail"] >>

\* a lookup that takes the descriptor registered last under the name
find_last(name) ==
    IF \E i \in 1..Len(syscalls) : syscalls[i].name = name
    THEN CHOOSE i \in 1..Len(syscalls) :
            /\ syscalls[i].name = name
            /\ \A j \in (i + 1)..Len(syscalls) : syscalls[j].name # name
    ELSE 0

\* a lookup that falls back to the first descriptor when no name matches
find_or_first(name) ==
    IF \E i \in 1..Len(syscalls) : syscalls[i].name = name
    THEN CHOOSE i \in 1..Len(syscalls) :
            /\ syscalls[i].name = name
            /\ \A j \in 1..(i - 1) : syscalls[j].name # name
    ELSE 1

\* self.syscalls.iter_mut().find(|sc| sc.name == syscall): the first index, 0 for None
Find(name) ==
    IF \E i \in 1..Len(syscalls) : syscalls[i].name = name
    THEN CHOOSE i \in 1..Len(syscalls) :
            /\ syscalls[i].name = name
            /\ \A j \in 1..(i - 1) : syscalls[j].name # name
    ELSE 0

AllNone == [i \in 1..6 |-> None]

\* no pre-hook ran
NoRet == [kind |-> "None", slots |-> AllNone, r |-> Zero]

\* what the user's hook code may do: a passthrough hook returns its arguments as
\* it got them or replaces the last one, a blocking hook returns 42 or -1
HookChoices(sc) ==
    IF sc.variant = "Passthrough"
    THEN {[repl |-> S, r |-> Zero] : S \in {{}, {sc.arity}} \cap SUBSET (1..sc.arity)}
    ELSE {[repl |-> {}, r |-> from_u64(sc.ret, x)] : x \in {U64(42, 0, 0, 0), AllOnes}}

\* the value a hook puts in place of an argument of type ty
NewArg(ty) == from_u64(ty, U64(5, 0, 0, 0))

\* a to_pa that pads the tuple with Some(0)
to_pa_zero_padded(t) == [i \in 1..6 |-> IF i <= Len(t) THEN Some(t[i]) ELSE Some(Zero)]

\* VariantInto::to_pa: Some for the tuple's elements, None for the padding
to_pa(t) == [i \in 1..6 |-> IF i <= Len(t) THEN Some(t[i]) ELSE None]

\* SysCall::call_pre with the typed arguments a
call_pre(sc, a, choice) ==
    IF sc.variant = "Passthrough"
    THEN [kind |-> "PackedArgs",
          slots |-> to_pa([i \in 1..sc.arity |->
                              IF i \in choice.repl THEN NewArg(sc.args[i]) ELSE a[i]]),
          r |-> Zero]
    ELSE [kind |-> "Normal", slots |-> AllNone, r |-> choice.r]

\* SysCall::call_post: the user's post-hook
call_post(sc, r) == IF sc.post = "fail" THEN from_u64(sc.ret, AllOnes) ELSE r

\* the pre closure Interceptor::on builds, on the six argument registers
pre(sc, regs, choice) ==
    LET a == [i \in 1..6 |-> ReadInt(sc.args[i], regs[i])]
        rv == call_pre(sc, [i \in 1..6 |-> a[i].inner], choice)
    IN  IF rv.kind = "PackedArgs"
        THEN [kind |-> "PackedArgs",
              slots |-> [i \in 1..6 |-> WriteInt(sc.args[i], rv.slots[i])],
              r |-> Zero]
        ELSE [kind |-> "Normal", slots |-> AllNone, r |-> to_u64(sc.ret, rv.r)]

\* a post closure that hands rax back without calling the post-hook
post_skipped(sc, u) == to_u64(sc.ret, from_u64(sc.ret, u))

\* the post closure Interceptor::on builds
post(sc, u) == to_u64(sc.ret, call_post(sc, from_u64(sc.ret, u)))

----------------------------------------------------------------------------
(* The traced tasks and the kernel *)

Tracees == 1..NumTracees

\* the stops Ptracer::wait reports
Stops == {"SyscallEnter", "SyscallExit", "SignalDelivery"}

\* the registers a task has outside a syscall
IdleRegs ==
    [orig_rax |-> 0, rax |-> Zero, rdi |-> Zero, rsi |-> Zero, rdx |-> Zero,
     r10 |-> Zero, r8 |-> Zero, r9 |-> Zero]

\* the registers of a task entering syscall nr: the kernel has put -ENOSYS in rax;
\* the upper half of rdi holds what the caller left there
EntryRegs(nr) ==
    [orig_rax |-> nr, rax |-> ENOSYS,
     rdi |-> U64(3, 0, 7, 0), rsi |-> U64(4096, 0, 0, 0), rdx |-> U64(1, 0, 0, 0),
     r10 |-> U64(10, 0, 0, 0), r8 |-> U64(8, 0, 0, 0), r9 |-> U64(9, 0, 0, 0)]

\* what the kernel returns from a syscall it runs: success, or -EBADF
KernelRets == {Zero, U64(65527, 65535, 65535, 65535)}

\* nr: the number the task issued; pre, pre_sc: the pre closure's result and its
\* descriptor; kret: rax as the kernel left it; exit, post_sc: what the exit stop did
NoHist == [nr |-> 0, pre |-> NoRet, pre_sc |-> 0,
           kret |-> Zero, exit |-> "none", post_sc |-> 0]

\* a running task issues a syscall and stops at its entry
Syscall(t, nr) ==
    /\ run_state = "running"
    /\ tracee[t].stop = "user"
    /\ tracee' = [tracee EXCEPT ![t] = [stop |-> "SyscallEnter", regs |-> EntryRegs(nr)]]
    /\ hist' = [hist EXCEPT ![t] = [NoHist EXCEPT !.nr = nr]]
    /\ UNCHANGED <<block_calls, run_state, marshalVars>>

\* a running task is stopped by a signal, some time after its last syscall
Signal(t) ==
    /\ run_state = "running"
    /\ tracee[t].stop = "user"
    /\ tracee' = [tracee EXCEPT ![t] = [stop |-> "SignalDelivery", regs |-> IdleRegs]]
    /\ hist' = [hist EXCEPT ![t] = NoHist]
    /\ UNCHANGED <<block_calls, run_state, marshalVars>>

\* the kernel rejects a number its table does not hold and stops at the exit
KernelReject(t) ==
    /\ tracee[t].stop = "kernel"
    /\ tracee[t].regs.orig_rax \notin DOMAIN SYSCALL_TABLE
    /\ tracee' = [tracee EXCEPT ![t].stop = "SyscallExit", ![t].regs.rax = ENOSYS]
    /\ hist' = [hist EXCEPT ![t].kret = ENOSYS]
    /\ UNCHANGED <<block_calls, run_state, marshalVars>>

\* the kernel runs an ordinary syscall and stops at the exit
KernelRun(t) ==
    /\ tracee[t].stop = "kernel"
    /\ tracee[t].regs.orig_rax \in DOMAIN SYSCALL_TABLE \ {56}
    /\ \E ret \in KernelRets :
        /\ tracee' = [tracee EXCEPT ![t].stop = "SyscallExit", ![t].regs.rax = ret]
        /\ hist' = [hist EXCEPT ![t].kret = ret]
    /\ UNCHANGED <<block_calls, run_state, marshalVars>>

\* clone: a new task starts (when the bound leaves one) and is traced as well
KernelClone(t) ==
    /\ tracee[t].stop = "kernel"
    /\ tracee[t].regs.orig_rax = 56
    /\ LET unborn == {c \in Tracees : tracee[c].stop = "unborn"}
           ret == IF unborn = {} THEN AllOnes
                  ELSE U64(CHOOSE c \in unborn : \A d \in unborn : c <= d, 0, 0, 0)
       IN  /\ tracee' = [c \in Tracees |->
                            IF c = t
                            THEN [stop |-> "SyscallExit",
                                  regs |-> [tracee[t].regs EXCEPT !.rax = ret]]
                            ELSE IF unborn # {} /\ c = ret[1]
                            THEN [stop |-> "user", regs |-> IdleRegs]
                            ELSE tracee[c]]
           /\ hist' = [hist EXCEPT ![t].kret = ret]
    /\ UNCHANGED <<block_calls, run_state, marshalVars>>

\* a running task ends: no further stop of it is reported
Exit(t) ==
    /\ run_state = "running"
    /\ tracee[t].stop = "user"
    /\ tracee' = [tracee EXCEPT ![t] = [stop |-> "gone", regs |-> IdleRegs]]
    /\ hist' = [hist EXCEPT ![t] = NoHist]
    /\ UNCHANGED <<block_calls, run_state, marshalVars>>

----------------------------------------------------------------------------
(* Interceptor::run and Interceptor::on_stop *)

\* HashMap::insert and HashMap::remove
Insert(m, k, v) == [x \in DOMAIN m \cup {k} |-> IF x = k THEN v ELSE m[x]]

Remove(m, k) == [x \in DOMAIN m \ {k} |-> m[x]]

\* set_reg! without its `if let Some`: the register is written for None as well
set_reg_always(regs, r, n, slots) == [regs EXCEPT ![r] = slots[n].v]

\* the set_reg! macro: register r takes slot n when it is Some
set_reg(regs, r, n, slots) ==
    IF slots[n].some THEN [regs EXCEPT ![r] = slots[n].v] ELSE regs

\* set_reg!(rdi, 1) ... set_reg!(r9, 6)
set_regs(regs, slots) ==
    set_reg(set_reg(set_reg(set_reg(set_reg(set_reg(regs,
        "rdi", 1, slots), "rsi", 2, slots), "rdx", 3, slots),
        "r10", 4, slots), "r8", 5, slots), "r9", 6, slots)

ArgsOf(regs) == <<regs.rdi, regs.rsi, regs.rdx, regs.r10, regs.r8, regs.r9>>

\* rand::thread_rng().gen::<u16>(): the least value and the greatest ones
U16Samples == {0} \cup ((65536 - MaxRand)..65535)

\* a fabricated number without the offset of 512
fabricated_low(rnd) == rnd

\* the fabricated number of a blocked call: 512 + rand::thread_rng().gen::<u16>()
\* as u64 (no wrap: at most 66047)
Fabricated(rnd) == 512 + rnd

\* Stop::SyscallEnter, no descriptor of that name: nothing is done
EnterNoMatch(t) ==
    /\ tracee[t].stop = "SyscallEnter"
    /\ Find(SyscallName(tracee[t].regs.orig_rax)) = 0
    /\ tracee' = [tracee EXCEPT ![t].stop = "kernel"]
    /\ UNCHANGED <<hist, block_calls>>

\* Stop::SyscallEnter, the pre closure returns PackedArgs
EnterPackedArgs(t) ==
    /\ tracee[t].stop = "SyscallEnter"
    /\ LET regs == tracee[t].regs
           i == Find(SyscallName(regs.orig_rax))
       IN  /\ i # 0
           /\ \E choice \in HookChoices(syscalls[i]) :
                LET rv == pre(syscalls[i], ArgsOf(regs), choice)
                IN  /\ rv.kind = "PackedArgs"
                    /\ tracee' = [tracee EXCEPT ![t] =
                                    [stop |-> "kernel", regs |-> set_regs(regs, rv.slots)]]
                    /\ hist' = [hist EXCEPT ![t].pre = rv, ![t].pre_sc = i]
    /\ UNCHANGED block_calls

\* Stop::SyscallEnter, the pre closure returns Normal: the call is blocked
EnterNormal(t) ==
    /\ tracee[t].stop = "SyscallEnter"
    /\ LET regs == tracee[t].regs
           i == Find(SyscallName(regs.orig_rax))
       IN  /\ i # 0
           /\ \E choice \in HookChoices(syscalls[i]), rnd \in U16Samples :
                LET rv == pre(syscalls[i], ArgsOf(regs), choice)
                    sysno == Fabricated(rnd)
                IN  /\ rv.kind = "Normal"
                    /\ block_calls' = Insert(block_calls, sysno, rv.r)
                    /\ tracee' = [tracee EXCEPT ![t] =
                                    [stop |-> "kernel",
                                     regs |-> [regs EXCEPT !.orig_rax = sysno]]]
                    /\ hist' = [hist EXCEPT ![t].pre = rv, ![t].pre_sc = i]

\* Stop::SyscallExit, orig_rax is a key of block_calls
ExitBlocked(t) ==
    /\ tracee[t].stop = "SyscallExit"
    /\ LET regs == tracee[t].regs
       IN  /\ regs.orig_rax \in DOMAIN block_calls
           /\ tracee' = [tracee EXCEPT ![t] =
                            [stop |-> "user",
                             regs |-> [regs EXCEPT !.rax = block_calls[regs.orig_rax]]]]
           /\ block_calls' = Remove(block_calls, regs.orig_rax)
           /\ hist' = [hist EXCEPT ![t].exit = "blocked"]

\* Stop::SyscallExit, not blocked, a descriptor of that name: its post-hook runs
ExitPost(t) ==
    /\ tracee[t].stop = "SyscallExit"
    /\ LET regs == tracee[t].regs
           i == Find(SyscallName(regs.orig_rax))
       IN  /\ regs.orig_rax \notin DOMAIN block_calls
           /\ i # 0
           /\ tracee' = [tracee EXCEPT ![t] =
                            [stop |-> "user",
                             regs |-> [regs EXCEPT !.rax = post(syscalls[i], regs.rax)]]]
           /\ hist' = [hist EXCEPT ![t].exit = "post", ![t].post_sc = i]
    /\ UNCHANGED block_calls

\* Stop::SyscallExit, not blocked, no descriptor of that name
ExitNoMatch(t) ==
    /\ tracee[t].stop = "SyscallExit"
    /\ tracee[t].regs.orig_rax \notin DOMAIN block_calls
    /\ Find(SyscallName(tracee[t].regs.orig_rax)) = 0
    /\ tracee' = [tracee EXCEPT ![t].stop = "user"]
    /\ hist' = [hist EXCEPT ![t].exit = "untouched"]
    /\ UNCHANGED block_calls

\* a tracer that handles the stop and waits again without a restart
OtherStop_not_restarted(t) ==
    /\ tracee[t].stop \in Stops \ {"SyscallEnter", "SyscallExit"}
    /\ UNCHANGED <<tracee, hist, block_calls>>

\* any other stop
OtherStop(t) ==
    /\ tracee[t].stop \in Stops \ {"SyscallEnter", "SyscallExit"}
    /\ tracee' = [tracee EXCEPT ![t].stop = "user"]
    /\ UNCHANGED <<hist, block_calls>>

\* on_stop, then ptracer.restart(tracee, Restart::Syscall)
on_stop(t) ==
    \/ EnterNoMatch(t)
    \/ EnterPackedArgs(t)
    \/ EnterNormal(t)
    \/ ExitBlocked(t)
    \/ ExitPost(t)
    \/ ExitNoMatch(t)
    \/ OtherStop(t)

\* one turn of run's loop: wait() hands out a stopped task
run(t) ==
    /\ run_state = "running"
    /\ on_stop(t)
    /\ UNCHANGED <<run_state, marshalVars>>

\* wait() returns None once no task is left: run returns Ok(())
RunReturn ==
    /\ run_state = "running"
    /\ \A t \in Tracees : tracee[t].stop \in {"gone", "unborn"}
    /\ run_state' = "returned"
    /\ UNCHANGED <<tracee, hist, block_calls, marshalVars>>

\* the tracer after Interceptor::new and the registrations
InitTracer ==
    /\ tracee = [t \in Tracees |->
                    [stop |-> IF t = 1 THEN "user" ELSE "unborn", regs |-> IdleRegs]]
    /\ hist = [t \in Tracees |-> NoHist]
    /\ block_calls = << >>
    /\ run_state = "running"

NumIdle == [phase |-> "idle", ty |-> "u64", u |-> Zero, keep |-> TRUE, out |-> None]

\* remote_mem: Rc::new(RefCell::new(None))
NoMem == [some |-> FALSE, base |-> 0, offset |-> 0, max |-> 0]

AllocIdle == [status |-> "none", size |-> 0, addr |-> 0, retries |-> 0, before |-> NoMem]

\* Interceptor::new leaves the allocator unset; nothing has been allocated
InitAlloc ==
    /\ remote_mem = NoMem
    /\ alloc = AllocIdle

NoAddr == [some |-> FALSE, v |-> 0]

SomeAddr(a) == [some |-> TRUE, v |-> a]

NoBytes == [heap |-> 0, bytes |-> << >>]

StrIdle == [stops |-> 0, status |-> "idle", origin |-> 0, before |-> << >>,
            inner |-> << >>, mirror |-> << >>, same |-> TRUE, c |-> << >>,
            size |-> 0, ret |-> NoAddr]

\* what the tracee built at the array's address: its strings, and the element
\* (0: none) whose pointer it left pointing at nothing
NoArgv == [strs |-> << >>, bad |-> 0]

ArrIdle == [stops |-> 0, status |-> "idle", argv |-> NoArgv, origin |-> 0,
            before |-> << >>, inner |-> << >>, mirror |-> << >>, same |-> TRUE,
            ret |-> NoAddr]

\* no C-string argument and no array argument has been seen
InitStr ==
    /\ mem = NoBytes
    /\ str = StrIdle
    /\ arr = ArrIdle

Init ==
    /\ InitTracer
    /\ num = NumIdle
    /\ InitAlloc
    /\ InitStr

Next ==
    \/ \E t \in Tracees, nr \in TraceeSyscalls : Syscall(t, nr)
    \/ \E t \in Tracees : Signal(t)
    \/ \E t \in Tracees : KernelReject(t)
    \/ \E t \in Tracees : KernelRun(t)
    \/ \E t \in Tracees : KernelClone(t)
    \/ \E t \in Tracees : Exit(t)
    \/ \E t \in Tracees : run(t)
    \/ RunReturn

Spec == Init /\ [][Next]_vars

\* the scheduling run relies on: wait() reports every stopped task and the loop
\* handles it, the kernel finishes every syscall it was handed, each task that
\* keeps coming back to user code ends at some point, and wait() reports None
\* once no task is left
Fairness ==
    /\ \A t \in Tracees : WF_vars(run(t))
    /\ \A t \in Tracees : WF_vars(KernelReject(t) \/ KernelRun(t) \/ KernelClone(t))
    /\ \A t \in Tracees : SF_vars(Exit(t))
    /\ WF_vars(RunReturn)

SpecLive == Init /\ [][Next]_vars /\ Fairness

\* a tracer that restarts the task although its registers could not be read
ReadFail_restarted(t) ==
    /\ run_state = "running"
    /\ tracee[t].stop \in Stops
    /\ run_state' = "read_failed"
    /\ tracee' = [tracee EXCEPT ![t].stop = "user"]
    /\ UNCHANGED <<hist, block_calls, marshalVars>>

\* on_stop: `tracee.registers()?` gives Err, which run's `?` returns
ReadFail(t) ==
    /\ run_state = "running"
    /\ tracee[t].stop \in Stops
    /\ run_state' = "read_failed"
    /\ UNCHANGED <<tracee, hist, block_calls, marshalVars>>

\* on_stop: `tracee.set_registers(regs)?` gives Err, which run's `?` returns; what
\* on_stop did before the flush stays done, the task's registers are as they were
FlushFail(t) ==
    /\ run_state = "running"
    /\ LET regs == tracee[t].regs
           i == Find(SyscallName(regs.orig_rax))
       IN  \/ /\ tracee[t].stop = "SyscallEnter"
              /\ i # 0
              /\ \E choice \in HookChoices(syscalls[i]), rnd \in U16Samples :
                    LET rv == pre(syscalls[i], ArgsOf(regs), choice)
                    IN  /\ hist' = [hist EXCEPT ![t].pre = rv, ![t].pre_sc = i]
                        /\ block_calls' = IF rv.kind = "Normal"
                                          THEN Insert(block_calls, Fabricated(rnd), rv.r)
                                          ELSE block_calls
           \/ /\ tracee[t].stop = "SyscallExit"
              /\ regs.orig_rax \in DOMAIN block_calls
              /\ block_calls' = Remove(block_calls, regs.orig_rax)
              /\ hist' = [hist EXCEPT ![t].exit = "blocked"]
           \/ /\ tracee[t].stop = "SyscallExit"
              /\ regs.orig_rax \notin DOMAIN block_calls
              /\ i # 0
              /\ hist' = [hist EXCEPT ![t].exit = "post", ![t].post_sc = i]
              /\ UNCHANGED block_calls
    /\ run_state' = "flush_failed"
    /\ UNCHANGED <<tracee, marshalVars>>

\* the loop with the kernel interactions of on_stop failing at any stop
NextFail ==
    \/ \E t \in Tracees, nr \in TraceeSyscalls : Syscall(t, nr)
    \/ \E t \in Tracees : Signal(t)
    \/ \E t \in Tracees : KernelReject(t)
    \/ \E t \in Tracees : KernelRun(t)
    \/ \E t \in Tracees : KernelClone(t)
    \/ \E t \in Tracees : Exit(t)
    \/ \E t \in Tracees : run(t)
    \/ RunReturn
    \/ \E t \in Tracees : ReadFail(t)
    \/ \E t \in Tracees : FlushFail(t)

SpecFail == Init /\ [][NextFail]_vars

----------------------------------------------------------------------------
(* Integer arguments: the value path of not_ptr_impl through the pre closure *)

\* 16-bit limbs a register is sampled from: the edges of the 8-, 16-bit casts
LimbSamples == {0, 127, 128, 32768, 65535}

\* register values an integer argument arrives with
RegSamples == {U64(a, b, c, d) : a, b, c, d \in LimbSamples}

\* an entry stop delivers one integer argument of a declared type
InitNum ==
    /\ InitTracer
    /\ num \in {[phase |-> "stop", ty |-> ty, u |-> u, keep |-> TRUE, out |-> None] :
                    ty \in IntTypes, u \in RegSamples}
    /\ InitAlloc
    /\ InitStr

\* the pre closure for that argument: Read::read, the hook (it hands the argument
\* back as it got it, or another value of the type), to_pa, Write::write
IntArg ==
    /\ num.phase = "stop"
    /\ \E keep \in BOOLEAN :
        LET a == ReadInt(num.ty, num.u)
            v == IF keep THEN a.inner ELSE NewArg(num.ty)
        IN  num' = [num EXCEPT !.phase = "done", !.keep = keep,
                               !.out = WriteInt(num.ty, to_pa(<<v>>)[1])]
    /\ UNCHANGED <<tracerVars, allocVars, strVars, arr>>

\* the exit stop of a call whose descriptor has return type num.ty, with rax =
\* num.u: regs.rax = (sc.post)(regs.rax), the post-hook handing back what it got
\* or failing the call
PostRet ==
    /\ num.phase = "stop"
    /\ \E p \in {"keep", "fail"} :
        num' = [num EXCEPT !.phase = "post", !.keep = (p = "keep"),
                           !.out = Some(post([ret |-> num.ty, post |-> p], num.u))]
    /\ UNCHANGED <<tracerVars, allocVars, strVars, arr>>

NextNum == IntArg \/ PostRet

SpecNum == InitNum /\ [][NextNum]_vars

----------------------------------------------------------------------------
(* The remote memory allocator: RemoteMem::new and alloc_remote_mem *)

\* reads of the discovery file that may fail before one succeeds
MaxFails == 7

\* inter_mem::MEM_BLOCK_SIZE
MEM_BLOCK_SIZE == 1024 * 8

\* addresses malloc may have returned in the tracee
HeapBases == {65536, 69632}

\* usize::to_le_bytes, as initialize() writes the block's address
RECURSIVE to_le_bytes_n(_, _)
to_le_bytes_n(a, n) ==
    IF n = 0 THEN << >> ELSE <<a % 256>> \o to_le_bytes_n(a \div 256, n - 1)

to_le_bytes(a) == to_le_bytes_n(a, 8)

\* what a successful read of the discovery file can return: the address
\* initialize() wrote, or the file as std::fs::write has created but not yet filled it
FileContents == {to_le_bytes(a) : a \in HeapBases} \cup {<< >>}

RECURSIVE le_value(_, _)
le_value(b, i) == IF i > Len(b) THEN 0 ELSE b[i] + 256 * le_value(b, i + 1)

\* usize::from_le_bytes(b.try_into().unwrap_or_default())
from_le_bytes(b) == IF Len(b) = 8 THEN le_value(b, 1) ELSE 0

\* the loop of RemoteMem::new: `fails` reads fail before `content` is read;
\* `retries` counts the sleeps
RECURSIVE new_loop(_, _, _, _)
new_loop(retry, fails, content, retries) ==
    IF fails > 0
    THEN IF retry >= 0
         THEN new_loop(retry - 1, fails - 1, content, retries + 1)
         ELSE [ok |-> FALSE, mem |-> NoMem, retries |-> retries]
    ELSE [ok |-> TRUE, retries |-> retries,
          mem |-> [some |-> TRUE, base |-> from_le_bytes(content), offset |-> 0,
                   max |-> MEM_BLOCK_SIZE]]

\* RemoteMem::new
RemoteMem_new(fails, content) == new_loop(5, fails, content, 0)

\* a size check that also refuses a request for the whole block
too_large_or_whole(size, m) == size >= m.max

\* alloc_remote_mem: `if size > mem.max { panic!(..) }`
too_large(size, m) == size > m.max

\* an offset that is advanced without the wrap
advance_unwrapped(m, size) == m.offset + size

\* an offset that wraps already when the request ends at the end of the block
advance_wrap_early(m, size) == IF m.offset + size >= m.max THEN 0 ELSE m.offset + size

\* alloc_remote_mem: `if mem.offset + size > mem.max { mem.offset = 0 } else
\* { mem.offset += size }`
advance(m, size) == IF m.offset + size > m.max THEN 0 ELSE m.offset + size

\* alloc_remote_mem on allocator state rm; status "no_setup" and "too_large" are
\* its two panics
alloc_remote_mem(rm, size, fails, content) ==
    LET init == IF rm.some THEN [ok |-> TRUE, mem |-> rm, retries |-> 0]
                ELSE RemoteMem_new(fails, content)
        m == init.mem
    IN  IF ~init.ok
        THEN [status |-> "no_setup", addr |-> 0, mem |-> rm, retries |-> init.retries]
        ELSE IF too_large(size, m)
        THEN [status |-> "too_large", addr |-> 0, mem |-> m, retries |-> init.retries]
        ELSE [status |-> "ok", addr |-> m.base + m.offset, retries |-> init.retries,
              mem |-> [m EXCEPT !.offset = advance(m, size)]]

\* sizes requested: "1.cpp\0", half a block, the whole block, one byte more
AllocSizes == {1, 6, 4096, MEM_BLOCK_SIZE, MEM_BLOCK_SIZE + 1}

\* one call of alloc_remote_mem
Alloc(size, fails, content) ==
    LET r == alloc_remote_mem(remote_mem, size, fails, content)
    IN  /\ remote_mem' = r.mem
        /\ alloc' = [status |-> r.status, size |-> size, addr |-> r.addr,
                     retries |-> r.retries, before |-> remote_mem]
        /\ UNCHANGED <<tracerVars, num, strVars, arr>>

InitAllocator ==
    /\ InitTracer
    /\ num = NumIdle
    /\ InitAlloc
    /\ InitStr

\* a call that finds the allocator unset and runs RemoteMem::new first
AllocFirst(size, fails, content) ==
    /\ ~remote_mem.some
    /\ Alloc(size, fails, content)

\* a call that finds the allocator set: the discovery file is not read
AllocAgain(size) ==
    /\ remote_mem.some
    /\ Alloc(size, 0, << >>)

NextAlloc ==
    \/ \E size \in AllocSizes, fails \in 0..MaxFails, content \in FileContents :
        AllocFirst(size, fails, content)
    \/ \E size \in AllocSizes : AllocAgain(size)

SpecAlloc == InitAllocator /\ [][NextAlloc]_vars

----------------------------------------------------------------------------
(* C-string arguments: ptr_impl's Read and Write and the tracee memory they touch *)

\* entry stops with a C-string argument that a behaviour holds
MaxStops == 2

\* the mapping the tracee keeps its strings in; it ends at a page boundary
StrRegion == 4080..4095

\* what that mapping holds at the start (97 'a', 98 'b', 0 NUL)
RegionSamples ==
    { <<97, 97, 97, 0, 98, 98, 98, 98, 98, 0, 97, 97, 97, 97, 97, 97>>,
      <<97, 97, 97, 97, 97, 97, 97, 97, 97, 0, 98, 98, 98, 98, 98, 0>>,
      <<97, 97, 97, 97, 97, 97, 97, 97, 0, 0, 98, 98, 98, 98, 98, 98>> }

\* the pointers the tracee passes: NULL, strings in the mapping, an unmapped address
StrOrigins == {0, 4080, 4084, 4089, 4090, 5000}

\* address a of the tracee is mapped: the string mapping or the malloc'ed block
Mapped(m, a) ==
    \/ a \in DOMAIN m.bytes
    \/ m.heap <= a /\ a < m.heap + MEM_BLOCK_SIZE

\* Tracee::read_memory_mut(addr, buf) with a buffer of n bytes: the bytes read,
\* fewer than n where the mapping ends, none where addr is not readable
RECURSIVE read_memory_mut(_, _, _)
read_memory_mut(m, addr, n) ==
    IF n = 0 \/ addr \notin DOMAIN m.bytes THEN << >>
    ELSE <<m.bytes[addr]>> \o read_memory_mut(m, addr + 1, n - 1)

\* buf.iter().position(|x| *x == b'\0'), 0 for None
position_nul(buf) ==
    IF \E i \in 1..Len(buf) : buf[i] = 0
    THEN CHOOSE i \in 1..Len(buf) : buf[i] = 0 /\ \A j \in 1..(i - 1) : buf[j] # 0
    ELSE 0

\* the loop of read_bytes_with_nul
RECURSIVE read_loop(_, _, _, _)
read_loop(m, addr, offset, data) ==
    LET buf == read_memory_mut(m, addr + offset, 8)
        i == position_nul(buf)
    IN  IF Len(buf) = 0 THEN data
        ELSE IF i # 0 THEN data \o SubSeq(buf, 1, i)
        ELSE read_loop(m, addr, offset + 8, data \o buf)

\* a read that leaves out the NUL it found
read_bytes(m, addr) ==
    LET data == IF addr # 0 THEN read_loop(m, addr, 0, << >>) ELSE << >>
    IN  IF data # << >> /\ data[Len(data)] = 0 THEN SubSeq(data, 1, Len(data) - 1)
        ELSE data

\* ReadRemote::read_bytes_with_nul
read_bytes_with_nul(m, addr) == IF addr # 0 THEN read_loop(m, addr, 0, << >>) ELSE << >>

\* Read for a C-string pointer: MayBePtr { inner: read_bytes_with_nul(u), origin: u }
ReadStr(m, u) == [inner |-> read_bytes_with_nul(m, u), origin |-> u]

\* how many of the n addresses from addr on are mapped without a gap
RECURSIVE mapped_run(_, _, _)
mapped_run(m, addr, n) ==
    IF n = 0 \/ ~Mapped(m, addr) THEN 0 ELSE 1 + mapped_run(m, addr + 1, n - 1)

\* a write_memory that terminates what it writes with one more NUL
write_memory_terminated(m, addr, data) ==
    LET d == data \o <<0>>
        k == mapped_run(m, addr, Len(d))
        at == addr..(addr + k - 1)
    IN  [ok |-> k > 0,
         mem |-> [m EXCEPT !.bytes = [a \in DOMAIN m.bytes \cup at |->
                                        IF a \in at THEN d[a - addr + 1]
                                        ELSE m.bytes[a]]]]

\* a write_memory that reports success and writes nothing
write_memory_dropped(m, addr, data) == [ok |-> TRUE, mem |-> m]

\* Tracee::write_memory(addr, data): an error where nothing can be written, else
\* the bytes that fit the mapping are written
write_memory(m, addr, data) ==
    LET k == mapped_run(m, addr, Len(data))
        at == addr..(addr + k - 1)
    IN  [ok |-> Len(data) = 0 \/ k > 0,
         mem |-> [m EXCEPT !.bytes = [a \in DOMAIN m.bytes \cup at |->
                                        IF a \in at THEN data[a - addr + 1]
                                        ELSE m.bytes[a]]]]

\* what a hook does to the buffer it is handed: nothing; its first byte
\* overwritten by 'x' or by NUL; or content longer than the buffer copied to it,
\* of which the buffer takes its own length ('x' in every byte)
Edits(inner) == {"none"} \cup (IF Len(inner) > 0 THEN {"first", "cut", "fill"} ELSE {})

Edited(inner, e) ==
    CASE e = "none" -> inner
      [] e = "first" -> [inner EXCEPT ![1] = 120]
      [] e = "cut" -> [inner EXCEPT ![1] = 0]
      [] e = "fill" -> [i \in 1..Len(inner) |-> 120]

\* the CStrings a hook returns in place of the buffer: "x", "xxxxx"
NewStrings == {<<120, 0>>, <<120, 120, 120, 120, 120, 0>>}

\* CStr::to_bytes: the bytes before the first NUL
to_bytes(c) == SubSeq(c, 1, position_nul(c) - 1)

\* CStr::from_ptr(v).to_bytes_with_nul(): the bytes at v up to and with the first NUL
to_bytes_with_nul(c) == SubSeq(c, 1, position_nul(c))

\* Write for a C-string pointer, on the mirror a whose buffer the hook has had;
\* v.same: the hook returned the pointer it was handed, v.c: the bytes with NUL of
\* the CString it returned instead
WriteStr(m, rm, a, v, fails, content) ==
    IF v.same
    THEN LET w == write_memory(m, a.origin, a.inner)
         IN  [status |-> IF w.ok THEN "done" ELSE "panic", mem |-> w.mem, rm |-> rm,
              size |-> 0, ret |-> IF w.ok THEN SomeAddr(a.origin) ELSE NoAddr]
    ELSE LET c == to_bytes_with_nul(v.c)
             r == alloc_remote_mem(rm, Len(c), fails, content)
             w == write_memory(m, r.addr, c)
         IN  IF r.status # "ok"
             THEN [status |-> "panic", mem |-> m, rm |-> r.mem, size |-> Len(c),
                   ret |-> NoAddr]
             ELSE [status |-> IF w.ok THEN "done" ELSE "panic", mem |-> w.mem,
                   rm |-> r.mem, size |-> Len(c),
                   ret |-> IF w.ok THEN SomeAddr(r.addr) ELSE NoAddr]

\* the pre closure for a C-string argument at u whose hook passes the call on:
\* Read::read, the hook, to_pa, Write::write
StrArg(u, e, v, fails, content) ==
    LET a == ReadStr(mem, u)
        b == [a EXCEPT !.inner = Edited(a.inner, e)]
        w == WriteStr(mem, remote_mem, b, v, fails, content)
    IN  /\ str.stops < MaxStops
        /\ mem' = w.mem
        /\ remote_mem' = w.rm
        /\ str' = [stops |-> str.stops + 1, status |-> w.status, origin |-> u,
                   before |-> mem.bytes, inner |-> a.inner, mirror |-> b.inner,
                   same |-> v.same, c |-> v.c, size |-> w.size, ret |-> w.ret]
        /\ UNCHANGED <<tracerVars, num, alloc, arr>>

\* the hook kept the pointer it was handed
StrKept(u) ==
    \E e \in Edits(read_bytes_with_nul(mem, u)) :
        StrArg(u, e, [same |-> TRUE, c |-> << >>], 0, << >>)

\* the hook returned a CString of its own; the allocator is set already
StrReplaced(u) ==
    /\ remote_mem.some
    /\ \E e \in Edits(read_bytes_with_nul(mem, u)), c \in NewStrings :
        StrArg(u, e, [same |-> FALSE, c |-> c], 0, << >>)

\* the hook returned a CString of its own and the allocator has yet to find the
\* block: the discovery file is there at once, or MaxFails reads fail first
StrReplacedFirst(u) ==
    /\ ~remote_mem.some
    /\ \E e \in Edits(read_bytes_with_nul(mem, u)), c \in NewStrings,
          fails \in {0, MaxFails}, content \in {to_le_bytes(mem.heap), << >>} :
        StrArg(u, e, [same |-> FALSE, c |-> c], fails, content)

\* the pre closure for a C-string argument whose hook returns Normal: the
\* argument is read, the hook may write to its buffer, nothing is written back
StrBlocked(u) ==
    LET a == ReadStr(mem, u)
    IN  /\ str.stops < MaxStops
        /\ \E e \in Edits(a.inner) :
            str' = [stops |-> str.stops + 1, status |-> "blocked", origin |-> u,
                    before |-> mem.bytes, inner |-> a.inner,
                    mirror |-> Edited(a.inner, e), same |-> TRUE, c |-> << >>,
                    size |-> 0, ret |-> NoAddr]
        /\ UNCHANGED <<tracerVars, num, allocVars, mem, arr>>

\* the tracee has its strings in place and its block malloc'ed; the tracer is fresh
InitStrings ==
    /\ InitTracer
    /\ num = NumIdle
    /\ InitAlloc
    /\ mem \in {[heap |-> 65536, bytes |-> [a \in StrRegion |-> r[a - 4079]]] :
                    r \in RegionSamples}
    /\ str = StrIdle
    /\ arr = ArrIdle

NextStr ==
    \/ \E u \in StrOrigins : StrKept(u)
    \/ \E u \in StrOrigins : StrReplaced(u)
    \/ \E u \in StrOrigins : StrReplacedFirst(u)
    \/ \E u \in StrOrigins : StrBlocked(u)

SpecStr == InitStrings /\ [][NextStr]_vars

----------------------------------------------------------------------------
(* Arrays of C strings: Read and Write for *const *const c_char *)

\* the mapping the tracee keeps an argv in: the pointer array at its start, the
\* strings behind it; 5000 is not mapped
ArgvRegion == 4000..4095

\* the arrays a tracee passes: sh -c "echo hi"; no element; an empty string and
\* one longer than a read; one whose second pointer points at nothing
ArgvSamples ==
    { [strs |-> << <<115, 104>>, <<45, 99>>, <<101, 99, 104, 111, 32, 104, 105>> >>,
       bad |-> 0],
      [strs |-> << >>, bad |-> 0],
      [strs |-> << << >>, <<97, 97, 97, 97, 97, 97, 97, 97, 97>> >>, bad |-> 0],
      [strs |-> << <<115, 104>>, <<45, 99>>, <<120>> >>, bad |-> 2] }

\* the strings of an array one behind the other, each with its NUL
RECURSIVE Joined(_)
Joined(strs) ==
    IF strs = << >> THEN << >> ELSE Head(strs) \o <<0>> \o Joined(Tail(strs))

\* the pointer array of argv when its strings are laid out from address at on:
\* its element pointers, then NULL
RECURSIVE Pointers(_, _, _)
Pointers(argv, i, at) ==
    IF i > Len(argv.strs) THEN to_le_bytes(0)
    ELSE to_le_bytes(IF i = argv.bad THEN 5000 ELSE at)
         \o Pointers(argv, i + 1, at + Len(argv.strs[i]) + 1)

\* the tracee's memory holding argv at the start of the mapping: the pointer
\* array with its NULL, one more pointer behind the NULL, the strings, then "zz"
Layout(argv) ==
    LET at == 4000 + 8 * (Len(argv.strs) + 2)
        img == Pointers(argv, 1, at) \o to_le_bytes(at) \o Joined(argv.strs)
    IN  [a \in ArgvRegion |->
            IF a - 3999 <= Len(img) THEN img[a - 3999]
            ELSE IF a = 4095 THEN 0 ELSE 122]

\* the loop of Read::read for *const *const c_char
RECURSIVE read_argv_loop(_, _, _, _)
read_argv_loop(m, u, offset, inner) ==
    LET ptr == read_memory_mut(m, u + offset, 8)
        pdata == read_bytes_with_nul(m, from_le_bytes(ptr))
    IN  IF pdata = << >> THEN inner \o <<0>>
        ELSE read_argv_loop(m, u, offset + 8, inner \o pdata)

\* Read for *const *const c_char: the flat buffer
ReadArgv(m, u) == [inner |-> read_argv_loop(m, u, 0, << >>), origin |-> u]

\* an iterator that hands out the first slice again and again
next_stuck(inner, offset) ==
    LET i == position_nul(inner)
    IN  IF i = 0 THEN [some |-> FALSE, slice |-> << >>, offset |-> offset]
        ELSE [some |-> TRUE, slice |-> SubSeq(inner, 1, i), offset |-> offset]

\* an iterator whose slices end before their NUL
next_without_nul(inner, offset) ==
    LET rest == SubSeq(inner, offset + 1, Len(inner))
        i == position_nul(rest)
    IN  IF i = 0 THEN [some |-> FALSE, slice |-> << >>, offset |-> offset]
        ELSE [some |-> TRUE, slice |-> SubSeq(rest, 1, i - 1), offset |-> offset + i]

\* MayBePtrIter::next: the slice from offset up to and with the next NUL
next(inner, offset) ==
    LET rest == SubSeq(inner, offset + 1, Len(inner))
        i == position_nul(rest)
    IN  IF i = 0 THEN [some |-> FALSE, slice |-> << >>, offset |-> offset]
        ELSE [some |-> TRUE, slice |-> SubSeq(rest, 1, i), offset |-> offset + i]

\* a pointer check that lets every pointer pass
relocation_ignored(a, v) == FALSE

\* Write::write for *const *const c_char: `self.inner.as_ptr() != v as *const u8`
relocated(a, v) == ~v.same

\* the loop of Write::write for *const *const c_char; it the iterator's offset
RECURSIVE write_argv_loop(_, _, _, _)
write_argv_loop(m, a, offset, it) ==
    LET ptr == read_memory_mut(m, a.origin + offset, 8)
        addr == from_le_bytes(ptr)
        nx == next(a.inner, it)
        w == write_memory(m, addr, nx.slice)
    IN  IF addr = 0 \/ ~nx.some THEN [status |-> "done", mem |-> m]
        ELSE IF ~w.ok THEN [status |-> "panic", mem |-> m]
        ELSE write_argv_loop(w.mem, a, offset + 8, nx.offset)

\* Write::write for *const *const c_char, on the mirror a whose buffer the hook
\* has had; v.same: the hook returned the pointer it was handed
WriteArgv(m, a, v) ==
    IF relocated(a, v) THEN [status |-> "panic", mem |-> m, ret |-> NoAddr]
    ELSE LET w == write_argv_loop(m, a, 0, 0)
         IN  [status |-> w.status, mem |-> w.mem,
              ret |-> IF w.status = "done" THEN SomeAddr(a.origin) ELSE NoAddr]

\* what a hook does to the flat buffer: nothing; its first byte overwritten by
\* 'x'; the NUL after the first string overwritten by 'x'; its first byte
\* overwritten by NUL; its first byte and every NUL behind the first one
\* overwritten by 'x'
ArgvEdits(inner) ==
    {"none", "first"}
        \cup (IF position_nul(inner) < Len(inner) THEN {"join", "cut", "open"} ELSE {})

ArgvEdited(inner, e) ==
    CASE e = "none" -> inner
      [] e = "first" -> [inner EXCEPT ![1] = 120]
      [] e = "join" -> [inner EXCEPT ![position_nul(inner)] = 120]
      [] e = "cut" -> [inner EXCEPT ![1] = 0]
      [] e = "open" -> [i \in 1..Len(inner) |->
                          IF i = 1 \/ (i > position_nul(inner) /\ inner[i] = 0)
                          THEN 120 ELSE inner[i]]

\* pointers the tracee passes for an array: NULL, its argv, an unmapped address
ArgvOrigins == {0, 4000, 5000}

\* the pre closure for an array argument at u whose hook passes the call on:
\* Read::read, the hook, to_pa, Write::write
ArgvArg(u, e, same) ==
    LET a == ReadArgv(mem, u)
        b == [a EXCEPT !.inner = ArgvEdited(a.inner, e)]
        w == WriteArgv(mem, b, [same |-> same])
    IN  /\ arr.stops < MaxStops
        /\ mem' = w.mem
        /\ arr' = [arr EXCEPT !.stops = arr.stops + 1, !.status = w.status,
                              !.origin = u, !.before = mem.bytes, !.inner = a.inner,
                              !.mirror = b.inner, !.same = same, !.ret = w.ret]
        /\ UNCHANGED <<tracerVars, num, allocVars, str>>

\* the hook returned the pointer it was handed
ArgvKept(u) == \E e \in ArgvEdits(ReadArgv(mem, u).inner) : ArgvArg(u, e, TRUE)

\* the hook returned another pointer
ArgvRelocated(u) == \E e \in ArgvEdits(ReadArgv(mem, u).inner) : ArgvArg(u, e, FALSE)

\* the tracee has an argv in place; the tracer is fresh
InitArgv ==
    /\ InitTracer
    /\ num = NumIdle
    /\ InitAlloc
    /\ str = StrIdle
    /\ \E argv \in ArgvSamples :
        /\ mem = [heap |-> 65536, bytes |-> Layout(argv)]
        /\ arr = [ArrIdle EXCEPT !.argv = argv]

NextArgv ==
    \/ \E u \in ArgvOrigins : ArgvKept(u)
    \/ \E u \in ArgvOrigins : ArgvRelocated(u)

SpecArgv == InitArgv /\ [][NextArgv]_vars

----------------------------------------------------------------------------
(* Claims about the tracer control loop, checked under Spec *)

\* task t is between the entry stop of a blocked call and the handling of its exit stop
InBlocked(t) ==
    /\ tracee[t].stop \in {"kernel", "SyscallExit"}
    /\ hist[t].pre.kind = "Normal"

\* task t has returned from a call whose pre-hook returned Normal
BlockedDone(t) ==
    /\ tracee[t].stop = "user"
    /\ hist[t].pre.kind = "Normal"

\* C1: when the pre-hook returned Normal(r) at the entry stop, the exit stop of
\* that call sets rax to exactly r and runs no post-hook.
C1_BlockedReturnsR ==
    \A t \in Tracees :
        BlockedDone(t) =>
            /\ tracee[t].regs.rax = hist[t].pre.r
            /\ hist[t].post_sc = 0

\* C2: every blocked entry is consumed by exactly one exit stop, the one of the
\* call that made it, which removes it; the map is empty when run() returns.
C2_OneShotBlocked ==
    /\ run_state = "returned" => block_calls = << >>
    /\ \A t \in Tracees :
        InBlocked(t) =>
            /\ tracee[t].regs.orig_rax \in DOMAIN block_calls
            /\ block_calls[tracee[t].regs.orig_rax] = hist[t].pre.r
    /\ \A k \in DOMAIN block_calls :
        Cardinality({t \in Tracees : InBlocked(t) /\ tracee[t].regs.orig_rax = k}) = 1
    /\ \A t \in Tracees : BlockedDone(t) => hist[t].exit = "blocked"

\* C3: the fabricated numbers of blocked calls that are outstanding together
\* never collide.
C3_NoCollision ==
    \A t, u \in Tracees :
        (t # u /\ InBlocked(t) /\ InBlocked(u)) =>
            tracee[t].regs.orig_rax # tracee[u].regs.orig_rax

\* the value the argument register of slot i must hold after a PackedArgs entry stop
C4_Expect(t, i, before) ==
    IF hist[t].pre.slots[i].some THEN hist[t].pre.slots[i].v ELSE before

\* C4: after an entry stop whose pre-hook result is PackedArgs(s1..s6), rdi, rsi,
\* rdx, r10, r8, r9 hold v where si = Some(v) and their old value where si = None;
\* orig_rax and rax are as the task issued them.
C4_PackedArgsRegisters ==
    \A t \in Tracees :
        (tracee[t].stop = "kernel" /\ hist[t].pre.kind = "PackedArgs") =>
            LET r == tracee[t].regs
                e == EntryRegs(hist[t].nr)
            IN  /\ r.rdi = C4_Expect(t, 1, e.rdi)
                /\ r.rsi = C4_Expect(t, 2, e.rsi)
                /\ r.rdx = C4_Expect(t, 3, e.rdx)
                /\ r.r10 = C4_Expect(t, 4, e.r10)
                /\ r.r8 = C4_Expect(t, 5, e.r8)
                /\ r.r9 = C4_Expect(t, 6, e.r9)
                /\ r.orig_rax = e.orig_rax
                /\ r.rax = e.rax

\* a task whose third argument was replaced while its padding slots kept their
\* registers, and a task whose PackedArgs was all None and changed nothing
C4_Witness ==
    \E t, u \in Tracees :
        /\ tracee[t].stop = "kernel"
        /\ hist[t].pre.kind = "PackedArgs"
        /\ hist[t].pre.slots[3].some
        /\ tracee[t].regs.rdx = hist[t].pre.slots[3].v
        /\ tracee[t].regs.rdx # EntryRegs(hist[t].nr).rdx
        /\ ~hist[t].pre.slots[4].some
        /\ tracee[t].regs.r10 = EntryRegs(hist[t].nr).r10
        /\ tracee[u].stop = "kernel"
        /\ hist[u].pre.kind = "PackedArgs"
        /\ \A i \in 1..6 : ~hist[u].pre.slots[i].some
        /\ tracee[u].regs = EntryRegs(hist[u].nr)

\* C5: an exit stop whose orig_rax is no key of block_calls and whose name matches
\* a descriptor overwrites rax with the post-hook's result for the kernel's rax,
\* and leaves block_calls as it is.
C5_PostOverwritesRax ==
    [][\A t \in Tracees :
        LET regs == tracee[t].regs
            i == Find(SyscallName(regs.orig_rax))
        IN  (/\ tracee[t].stop = "SyscallExit"
             /\ tracee'[t].stop = "user"
             /\ regs.orig_rax \notin DOMAIN block_calls
             /\ i # 0) =>
                /\ tracee'[t].regs.rax =
                      to_u64(syscalls[i].ret,
                             call_post(syscalls[i], from_u64(syscalls[i].ret, regs.rax)))
                /\ block_calls' = block_calls]_vars

\* the kernel succeeded (rax = 0) and the task observes the post-hook's -1
C5_Witness ==
    \E t \in Tracees :
        /\ tracee[t].stop = "user"
        /\ hist[t].exit = "post"
        /\ hist[t].kret = Zero
        /\ tracee[t].regs.rax = AllOnes

----------------------------------------------------------------------------
(* Claims about integer arguments, checked under SpecNum *)

\* an integer argument the hook handed back unchanged has been written back
NumKept == num.phase = "done" /\ num.keep

\* C6 as stated: an integer argument handed back unchanged gives a replacement
\* register value equal to the original 64-bit register value, for every integer
\* type and every register value.
C6_RoundTripEqual == NumKept => num.out = Some(num.u)

\* the bits of x above the low w bits
HighPart(x, w) ==
    CASE w = 8 -> <<x[1] \div 256, x[2], x[3], x[4]>>
      [] w = 16 -> <<0, x[2], x[3], x[4]>>
      [] w = 32 -> <<0, 0, x[3], x[4]>>
      [] w = 64 -> <<0, 0, 0, 0>>

\* C6: an integer argument handed back unchanged is written back as Some value
\* that agrees with the original register on the low bits of the declared type
\* and carries that type's sign or zero extension above them; hence it equals the
\* original for the 64-bit types and for 0, and writing it back again changes
\* nothing.
C6_RoundTripExtends ==
    NumKept =>
        LET w == Bits(num.ty)
            o == num.out.v
            neg == Signed(num.ty) /\ Negative(Trunc(num.u, w), w)
        IN  /\ num.out.some
            /\ Trunc(o, w) = Trunc(num.u, w)
            /\ HighPart(o, w) = HighPart(IF neg THEN AllOnes ELSE Zero, w)
            /\ w = 64 => o = num.u
            /\ num.u = Zero => o = Zero
            /\ WriteInt(num.ty, Some(ReadInt(num.ty, o).inner)) = num.out

\* an i32 argument whose register held a zero-extended negative number comes
\* back sign-extended, and differs from the register in its upper half
C6_Witness ==
    /\ NumKept
    /\ num.ty = "i32"
    /\ num.u = U64(65535, 65535, 0, 0)
    /\ num.out = Some(AllOnes)

\* an exit stop has run a post-hook that handed its argument back
RetKept == num.phase = "post" /\ num.keep

\* C29 as stated: with a post-hook that returns its argument unchanged, rax after
\* the exit stop equals rax before it, for every return type and every rax
C29_PostIdentity == RetKept => num.out = Some(num.u)

\* C29: with a post-hook that returns its argument unchanged, rax after the exit
\* stop agrees with rax before it on the low bits of the declared return type and
\* is that type's sign or zero extension above them; it is rax as it was for the
\* 64-bit types, and for a narrower type exactly when rax was that extension
\* already, as it is for 0 and for -1
C29_PostExtends ==
    RetKept =>
        LET w == Bits(num.ty)
            o == num.out.v
            ext == IF Signed(num.ty) /\ Negative(Trunc(num.u, w), w) THEN AllOnes ELSE Zero
        IN  /\ Trunc(o, w) = Trunc(num.u, w)
            /\ HighPart(o, w) = HighPart(ext, w)
            /\ o = num.u <=> HighPart(num.u, w) = HighPart(ext, w)
            /\ w = 64 => o = num.u
            /\ num.u \in {Zero, AllOnes} /\ Signed(num.ty) => o = num.u

\* a call declared to return u32 left a value above 32 bits in rax: the identity
\* post-hook's exit stop cut it to its low half
C29_Witness ==
    /\ RetKept
    /\ num.ty = "u32"
    /\ num.u = U64(128, 0, 127, 0)
    /\ num.out = Some(U64(128, 0, 0, 0))

----------------------------------------------------------------------------
(* Claims about the remote memory allocator, checked under SpecAlloc *)

\* the last call returned an address
AllocOk == alloc.status = "ok"

\* C7: every address alloc returns for a size <= MAX lies in [base, base+MAX).
C7_AddrInBlock ==
    (AllocOk /\ alloc.size <= MEM_BLOCK_SIZE) =>
        /\ remote_mem.base <= alloc.addr
        /\ alloc.addr < remote_mem.base + MEM_BLOCK_SIZE

\* C8: unless the region could not be set up, alloc succeeds for size = MAX from
\* every allocator state; for every size > MAX it panics, returns no address and
\* leaves the offset where it was.
C8_SizeBoundary ==
    /\ MEM_BLOCK_SIZE = 8192
    /\ AllocOk => alloc.size <= MEM_BLOCK_SIZE
    /\ (alloc.size = MEM_BLOCK_SIZE /\ alloc.status # "no_setup") => AllocOk
    /\ (alloc.status # "none" /\ alloc.size > MEM_BLOCK_SIZE) =>
            /\ alloc.status \in {"too_large", "no_setup"}
            /\ remote_mem.offset = alloc.before.offset

\* a whole block granted by an allocator whose offset was in the middle of the block
C8_Witness ==
    /\ AllocOk
    /\ alloc.size = MEM_BLOCK_SIZE
    /\ alloc.before.some
    /\ alloc.before.offset = 4096
    /\ remote_mem.offset = 0

\* C9: when every read of the discovery file fails, set-up aborts after exactly
\* five retries; when a read succeeds, base is what the file holds and offset
\* starts at 0.
C9_FiveRetries ==
    /\ alloc.status = "no_setup" => alloc.retries = 5
    /\ (alloc.status \in {"ok", "too_large"} /\ ~alloc.before.some) =>
            /\ remote_mem.some
            /\ remote_mem.base \in HeapBases \cup {0}
            /\ alloc.status = "ok" => alloc.addr = remote_mem.base

\* C22: in every allocator state, after calls that returned an address and calls
\* that panicked, 0 <= offset <= max and max = 8192
C22_OffsetInBounds ==
    remote_mem.some =>
        /\ remote_mem.max = 8192
        /\ 0 <= remote_mem.offset
        /\ remote_mem.offset <= remote_mem.max

\* the offset has reached max, and a call for more than a block has panicked since
C22_Witness ==
    /\ remote_mem.some
    /\ remote_mem.offset = remote_mem.max
    /\ alloc.status = "too_large"
    /\ alloc.before.offset = remote_mem.max

\* the allocator as the last call found it, after its set-up if it was the first
AllocFound ==
    IF alloc.before.some THEN alloc.before ELSE [remote_mem EXCEPT !.offset = 0]

\* C23: a call that returns an address returns base + offset, offset as the call
\* found it, and leaves offset + size as the new offset, or 0 when offset + size
\* is more than MAX; base is set by the first call and no later call changes it
C23_AllocStep ==
    [][/\ AllocOk' =>
            LET found == AllocFound'
            IN  /\ alloc'.addr = found.base + found.offset
                /\ remote_mem'.offset =
                        IF found.offset + alloc'.size > MEM_BLOCK_SIZE
                        THEN 0 ELSE found.offset + alloc'.size
                /\ alloc'.before = remote_mem
       /\ remote_mem.some => remote_mem'.some /\ remote_mem'.base = remote_mem.base]_vars

\* a call that ended exactly at the end of the block and did not wrap, a call
\* before it, and the base still the one the first call read
C23_Witness ==
    /\ AllocOk
    /\ alloc.before.some
    /\ alloc.before.offset = 4096
    /\ alloc.size = 4096
    /\ alloc.addr = alloc.before.base + 4096
    /\ remote_mem.offset = MEM_BLOCK_SIZE
    /\ remote_mem.base = alloc.before.base
    /\ remote_mem.base \in HeapBases

\* C26: the bytes addr .. addr + size - 1 of every allocation that returned an
\* address lie in the tracee's block, base .. base + MAX - 1
C26_RangeInBlock ==
    AllocOk =>
        /\ remote_mem.base <= alloc.addr
        /\ alloc.addr + alloc.size <= remote_mem.base + MEM_BLOCK_SIZE

\* the byte ranges of two allocations have no byte in common
Disjoint(a1, s1, a2, s2) == a1 + s1 <= a2 \/ a2 + s2 <= a1

\* C27: two allocations made one after the other, as the writebacks of two
\* replaced string arguments of one call make them, never overlap
C27_NoOverlapInStop ==
    [][(AllocOk /\ AllocOk' /\ alloc.size > 0 /\ alloc'.size > 0) =>
            Disjoint(alloc.addr, alloc.size, alloc'.addr, alloc'.size)]_vars

----------------------------------------------------------------------------
(* Claims about C-string arguments, checked under SpecStr *)

\* a C-string argument has been written back under the pointer the hook was handed
StrInPlace == str.status = "done" /\ str.same

\* C10: when the hook returns the buffer pointer it received, then after writeback
\* the tracee's memory at the original address equals the mirror byte for byte,
\* up to and including the first NUL, and the register value is the original
\* address; when the hook did not modify the buffer, the tracee's memory is as
\* it was before the read.
C10_InPlaceWriteback ==
    StrInPlace =>
        /\ str.ret = SomeAddr(str.origin)
        /\ \A i \in 1..Len(str.mirror) :
                /\ str.origin + i - 1 \in DOMAIN mem.bytes
                /\ mem.bytes[str.origin + i - 1] = str.mirror[i]
        /\ str.mirror = str.inner => mem.bytes = str.before

\* a string of more than one 8-byte read whose first byte the hook overwrote in
\* place has reached the tracee's memory
C10_Witness ==
    /\ StrInPlace
    /\ Len(str.inner) > 8
    /\ str.mirror # str.inner
    /\ str.mirror[Len(str.mirror)] = 0
    /\ mem.bytes # str.before
    /\ mem.bytes[str.origin] = 120

\* a step that wrote a C-string argument back under the pointer the hook was handed
StrKeptStep ==
    /\ str'.stops = str.stops + 1
    /\ str'.status = "done"
    /\ str'.same

\* C11: when the hook keeps the buffer pointer, writeback writes the bytes of the
\* mirror, as many as were read, at the original address and no byte elsewhere
\* (longer content is cut to the length read), requests nothing from the
\* allocator and leaves its base and offset as they were.
C11_KeptPointerFrame ==
    [][StrKeptStep =>
        LET at == str'.origin..(str'.origin + Len(str'.inner) - 1)
        IN  /\ Len(str'.mirror) = Len(str'.inner)
            /\ DOMAIN mem'.bytes = DOMAIN mem.bytes
            /\ \A a \in DOMAIN mem.bytes :
                    mem'.bytes[a] = IF a \in at THEN str'.mirror[a - str'.origin + 1]
                                    ELSE mem.bytes[a]
            /\ mem'.heap = mem.heap
            /\ str'.size = 0
            /\ remote_mem' = remote_mem]_vars

\* the hook copied content longer than the buffer over a string that ended inside
\* the mapping: the byte after it is as before, and the allocator, used at an
\* earlier stop, kept its offset
C11_Witness ==
    /\ StrInPlace
    /\ Len(str.inner) > 0
    /\ \A i \in 1..Len(str.mirror) : str.mirror[i] = 120
    /\ str.inner[Len(str.inner)] = 0
    /\ str.origin + Len(str.inner) \in DOMAIN mem.bytes
    /\ mem.bytes[str.origin + Len(str.inner)] = str.before[str.origin + Len(str.inner)]
    /\ mem.bytes[str.origin + Len(str.inner) - 1] = 120
    /\ remote_mem.some
    /\ remote_mem.offset > 0

\* a step that wrote back a C-string argument whose pointer the hook replaced
StrReplacedStep ==
    /\ str'.stops = str.stops + 1
    /\ str'.status = "done"
    /\ ~str'.same

\* C12: when the hook replaces the pointer by a new NUL-terminated string of
\* length len, writeback asks the allocator for len+1 bytes, the tracee's memory
\* at the address A it returns holds the len bytes and then NUL, the register
\* value becomes A, and no byte of the tracee outside A..A+len is written, the
\* original string included.
C12_ReplacedPointer ==
    [][StrReplacedStep =>
        LET c == str'.c
            len == Len(c) - 1
            A == str'.ret.v
            offset == IF remote_mem.some THEN remote_mem.offset ELSE 0
        IN  /\ c[len + 1] = 0
            /\ \A i \in 1..len : c[i] # 0
            /\ str'.size = len + 1
            /\ remote_mem'.some
            /\ remote_mem'.offset = offset + len + 1
            /\ str'.ret.some
            /\ A = remote_mem'.base + offset
            /\ \A i \in 1..(len + 1) :
                    /\ A + i - 1 \in DOMAIN mem'.bytes
                    /\ mem'.bytes[A + i - 1] = c[i]
            /\ \A a \in DOMAIN mem.bytes \ (A..(A + len)) :
                    mem'.bytes[a] = mem.bytes[a]]_vars

\* the second replaced string of a behaviour: "xxxxx" is in the block behind the
\* first one, the register value is its address, and the old string, which the
\* hook had also overwritten in its buffer, is in the tracee as it was
C12_Witness ==
    /\ str.status = "done"
    /\ ~str.same
    /\ str.c = <<120, 120, 120, 120, 120, 0>>
    /\ str.ret = SomeAddr(mem.heap + 2)
    /\ mem.bytes[mem.heap + 2] = 120
    /\ mem.bytes[mem.heap + 7] = 0
    /\ Len(str.inner) > 8
    /\ str.mirror # str.inner
    /\ \A a \in StrRegion : mem.bytes[a] = str.before[a]

----------------------------------------------------------------------------
(* Claims about arrays of C strings, checked under SpecArgv *)

\* the array argument read last was the tracee's argv, NULL-terminated and with
\* every pointer at a string, in memory as the tracee had built it
ArgvWellFormed ==
    /\ arr.status # "idle"
    /\ arr.origin = 4000
    /\ arr.argv.bad = 0
    /\ arr.before = Layout(arr.argv)

\* C13: reading a NULL-terminated array of C-string pointers yields the strings
\* of its elements in array order, each followed by its NUL, then one more NUL;
\* nothing behind the first NULL pointer is read.
C13_FlatBuffer == ArgvWellFormed => arr.inner = Joined(arr.argv.strs) \o <<0>>

\* sh -c "echo hi" has been read as sh NUL -c NUL echo hi NUL NUL
C13_Witness ==
    /\ ArgvWellFormed
    /\ Len(arr.argv.strs) = 3
    /\ arr.inner = <<115, 104, 0, 45, 99, 0, 101, 99, 104, 111, 32, 104, 105, 0, 0>>

\* the hook returned the array's buffer pointer and had left the buffer alone
ArgvUntouched ==
    /\ arr.status # "idle"
    /\ arr.same
    /\ arr.mirror = arr.inner

\* C14: when the hook does not mutate the flat buffer and returns the pointer it
\* received, the tracee's pointer array and strings are byte for byte as before
\* the read, writeback of a well-formed array completes, and the register value
\* it gives is the original array address.
C14_ArgvRoundTrip ==
    ArgvUntouched =>
        /\ mem.bytes = arr.before
        /\ arr.status = "done" => arr.ret = SomeAddr(arr.origin)
        /\ arr.argv.bad = 0 => arr.status = "done"

\* an unmodified argv of three strings went through writeback
C14_Witness ==
    /\ ArgvUntouched
    /\ ArgvWellFormed
    /\ Len(arr.argv.strs) = 3
    /\ Len(arr.inner) = 15
    /\ arr.status = "done"
    /\ arr.ret = SomeAddr(4000)

RECURSIVE Slices(_)
Slices(buf) ==
    LET i == position_nul(buf)
    IN  IF i = 0 THEN << >>
        ELSE <<SubSeq(buf, 1, i)>> \o Slices(SubSeq(buf, i + 1, Len(buf)))

\* the element pointers of the array at origin in memory image b, from element k
\* on, up to the first NULL (or the first element that cannot be read)
RECURSIVE ElemPointers(_, _, _)
ElemPointers(b, origin, k) ==
    LET at == origin + 8 * k
        p == IF \A i \in 0..7 : at + i \in DOMAIN b
             THEN le_value([i \in 1..8 |-> b[at + i - 1]], 1) ELSE 0
    IN  IF p = 0 THEN << >> ELSE <<p>> \o ElemPointers(b, origin, k + 1)

\* writeback of an array argument has completed under the pointer handed out
ArgvWritten == arr.status = "done" /\ arr.same

\* the number of writes of a completed writeback: one per element pointer, as
\* long as the buffer has slices
ArgvWrites ==
    LET n == Len(ElemPointers(arr.before, arr.origin, 0))
        k == Len(Slices(arr.mirror))
    IN  IF n <= k THEN n ELSE k

\* C25: a completed array writeback has written the k-th NUL-terminated slice of
\* the flat buffer, as the hook left it, at the k-th element pointer, for every k
\* up to the first NULL element and up to the last slice of the buffer, in that
\* order, and nothing else: every byte of the tracee is the one of the last such
\* write that covers it, or as it was; the pointer array is as it was, and the
\* register value is the array's original address
C25_ArrayWriteback ==
    ArgvWritten =>
        LET ps == ElemPointers(arr.before, arr.origin, 0)
            sl == Slices(arr.mirror)
            covers(k, a) == ps[k] <= a /\ a < ps[k] + Len(sl[k])
        IN  /\ DOMAIN mem.bytes = DOMAIN arr.before
            /\ \A a \in DOMAIN mem.bytes :
                    LET ks == {k \in 1..ArgvWrites : covers(k, a)}
                        last == CHOOSE k \in ks : \A j \in ks : j <= k
                    IN  mem.bytes[a] = IF ks = {} THEN arr.before[a]
                                       ELSE sl[last][a - ps[last] + 1]
            /\ \A a \in arr.origin..(arr.origin + 8 * (Len(ps) + 1) - 1) :
                    a \in DOMAIN mem.bytes => mem.bytes[a] = arr.before[a]
            /\ arr.ret = SomeAddr(arr.origin)

\* the hook left one slice in the buffer of sh -c "echo hi": its first string was
\* written back changed and the writeback ended there, two elements before the NULL
C25_Witness ==
    /\ ArgvWritten
    /\ ArgvWellFormed
    /\ Len(arr.argv.strs) = 3
    /\ Len(Slices(arr.mirror)) = 1
    /\ ArgvWrites = 1
    /\ mem.bytes[4040] = 120
    /\ arr.before[4040] = 115
    /\ \A a \in 4043..4095 : mem.bytes[a] = arr.before[a]

\* the string with its NUL that the read found at address p, in the memory as it
\* was before the writeback
OriginalString(p) == read_bytes_with_nul([mem EXCEPT !.bytes = arr.before], p)

\* C28: whatever the hook did to the flat buffer in place, no write of a
\* completed array writeback is longer than the string, with its NUL, that was
\* read from the element it goes to
C28_NoElementOverflow ==
    ArgvWritten =>
        LET ps == ElemPointers(arr.before, arr.origin, 0)
            sl == Slices(arr.mirror)
        IN  \A k \in 1..ArgvWrites : Len(sl[k]) <= Len(OriginalString(ps[k]))

\* the tracer's loop

\* a task the tracer has not been handed: its record is the same after the step
Untouched(t) == tracee'[t] = tracee[t]

\* a step of run's loop that handles the stop of task t: the task leaves the stop
\* restarted, towards its next syscall stop, and no other task is dealt with
Handled(t) ==
    /\ tracee[t].stop \in Stops
    /\ tracee'[t].stop \in {"kernel", "user"}
    /\ \A o \in Tracees \ {t} : Untouched(o)
    /\ run_state' = "running"

\* a task is stopped and waits for the tracer
Stopped(t) == tracee[t].stop \in Stops

\* C16: run handles the stops one at a time: a stopped task leaves its stop only
\* through one turn of the loop, which restarts that task and no other before the
\* next wait; run returns Ok only when no task has a stop left to report (all
\* are gone or were never started); and when every task ends at some point and
\* no kernel interaction fails, run returns at some point
C16_RunLoop ==
    /\ [][/\ \A t \in Tracees : Stopped(t) /\ ~Untouched(t) => Handled(t)
          /\ run_state' # run_state =>
                /\ run_state = "running" /\ run_state' = "returned"
                /\ \A t \in Tracees : tracee[t].stop \in {"gone", "unborn"}
                /\ UNCHANGED <<tracee, block_calls>>]_vars
    /\ [](run_state = "returned" => \A t \in Tracees : ~Stopped(t))
    /\ <>(run_state = "returned")

\* run has returned after both tasks ran and ended: the clone of the first task
\* was handled at its entry and at its exit
C16_Witness ==
    /\ run_state = "returned"
    /\ \A t \in Tracees : tracee[t].stop = "gone"

\* stops that pass through

\* no registered descriptor has the name of number nr
NoDescriptor(nr) == \A i \in 1..Len(syscalls) : syscalls[i].name # SyscallName(nr)

\* task t is at a stop the tracer has nothing to do for: not a syscall stop, or
\* a syscall stop of a number the table does not hold or whose name has no
\* descriptor; at an exit stop only when orig_rax is not a blocked-call key
PassThrough(t) ==
    LET nr == tracee[t].regs.orig_rax
    IN  \/ tracee[t].stop \in Stops \ {"SyscallEnter", "SyscallExit"}
        \/ /\ tracee[t].stop = "SyscallEnter"
           /\ nr \notin DOMAIN SYSCALL_TABLE \/ NoDescriptor(nr)
        \/ /\ tracee[t].stop = "SyscallExit"
           /\ nr \notin DOMAIN block_calls
           /\ nr \notin DOMAIN SYSCALL_TABLE \/ NoDescriptor(nr)

\* no closure of a descriptor ran for task t in the step
NoHook(t) ==
    /\ hist'[t].pre = hist[t].pre
    /\ hist'[t].pre_sc = hist[t].pre_sc
    /\ hist'[t].post_sc = hist[t].post_sc
    /\ hist'[t].exit # "post"

\* C17: the turn of the loop that handles a stop which is not a syscall stop, or
\* a syscall stop whose number is not in the table or whose name no descriptor
\* has (an exit stop only when orig_rax is not a key of block_calls), leaves the
\* task's registers, the tracee's memory, block_calls and the allocator as they
\* were and runs no hook
C17_PassThroughFrame ==
    [][\A t \in Tracees :
          PassThrough(t) /\ tracee'[t].stop # tracee[t].stop =>
            /\ tracee'[t].regs = tracee[t].regs
            /\ mem' = mem
            /\ block_calls' = block_calls
            /\ remote_mem' = remote_mem
            /\ NoHook(t)]_vars

\* a task is back in user code after a call of a number the table does not hold
\* went through both stops while a blocked call of the other task is pending
C17_Witness ==
    \E t \in Tracees :
        /\ tracee[t].stop = "user"
        /\ hist[t].nr = UnknownNr
        /\ hist[t].exit = "untouched"
        /\ tracee[t].regs = [EntryRegs(UnknownNr) EXCEPT !.rax = ENOSYS]
        /\ block_calls # << >>

\* padding slots

\* the descriptor whose pre closure ran at task t's entry stop
PreDescriptor(t) == syscalls[hist[t].pre_sc]

\* C18: after the entry stop of a passthrough descriptor of arity n, the result
\* of the pre closure has None in the slots n+1..6 and the registers of the
\* arguments n+1..6 hold what the task put there; for arity 0 that is all six
C18_PaddingUntouched ==
    \A t \in Tracees :
        (tracee[t].stop = "kernel" /\ hist[t].pre.kind = "PackedArgs") =>
            /\ PreDescriptor(t).variant = "Passthrough"
            /\ \A k \in (PreDescriptor(t).arity + 1)..6 :
                    /\ ~hist[t].pre.slots[k].some
                    /\ ArgsOf(tracee[t].regs)[k] = ArgsOf(EntryRegs(hist[t].nr))[k]

\* an lseek (arity 3) whose hook replaced its last argument: rdx changed, r10, r8
\* and r9 did not; and a sched_yield (arity 0) of the other task
C18_Witness ==
    \E t, u \in Tracees :
        /\ tracee[t].stop = "kernel"
        /\ hist[t].pre.kind = "PackedArgs"
        /\ PreDescriptor(t).arity = 3
        /\ \A k \in 1..3 : hist[t].pre.slots[k].some
        /\ tracee[t].regs.rdx # EntryRegs(hist[t].nr).rdx
        /\ \A k \in 4..6 : ArgsOf(tracee[t].regs)[k] = ArgsOf(EntryRegs(hist[t].nr))[k]
        /\ tracee[u].stop = "kernel"
        /\ hist[u].pre.kind = "PackedArgs"
        /\ PreDescriptor(u).arity = 0
        /\ ArgsOf(tracee[u].regs) = ArgsOf(EntryRegs(hist[u].nr))

\* the entry stop of a blocked call

\* the step is the entry stop of task t with a pre closure that returned Normal
NormalEntry(t) ==
    /\ tracee[t].stop = "SyscallEnter"
    /\ tracee'[t].stop = "kernel"
    /\ hist'[t].pre.kind = "Normal"

\* C19: at an entry stop whose pre closure returns Normal(ret) the tracer changes
\* no register but orig_rax (rax and the six argument registers are as before),
\* and block_calls gains exactly one entry, the new orig_rax with ret: the key
\* was not there before and every other entry is as it was
C19_NormalEntryFrame ==
    [][\A t \in Tracees :
          NormalEntry(t) =>
            LET sysno == tracee'[t].regs.orig_rax
            IN  /\ tracee'[t].regs = [tracee[t].regs EXCEPT !.orig_rax = sysno]
                /\ sysno \notin DOMAIN block_calls
                /\ DOMAIN block_calls' = DOMAIN block_calls \cup {sysno}
                /\ block_calls'[sysno] = hist'[t].pre.r
                /\ \A k \in DOMAIN block_calls : block_calls'[k] = block_calls[k]]_vars

\* the fabricated numbers

\* the range 512 + u16
InFabricatedRange(k) == 512 <= k /\ k <= 512 + 65535

FirstNamed(i, nr) ==
    /\ i \in 1..Len(syscalls)
    /\ syscalls[i].name = SyscallName(nr)
    /\ \A j \in 1..(i - 1) : syscalls[j].name # SyscallName(nr)

\* C21: the descriptor whose pre closure ran at a task's entry stop and the one
\* whose post closure ran at its exit stop are each the first registered under
\* the call's name, and what the stops did is what that descriptor does (its
\* variant at entry, its post-hook at exit); a descriptor registered later under
\* the same name never runs, and a stop runs the closure of one descriptor
C21_FirstMatchWins ==
    \A t \in Tracees :
        /\ hist[t].pre_sc # 0 =>
                /\ FirstNamed(hist[t].pre_sc, hist[t].nr)
                /\ hist[t].pre.kind = "PackedArgs"
                        <=> syscalls[hist[t].pre_sc].variant = "Passthrough"
        /\ hist[t].post_sc # 0 =>
                /\ FirstNamed(hist[t].post_sc, hist[t].nr)
                /\ tracee[t].stop = "user" =>
                        tracee[t].regs.rax = post(syscalls[hist[t].post_sc], hist[t].kret)

\* an lseek went through both stops with the first of the two descriptors named
\* lseek: passed on at entry, and rax kept at exit where the second one's
\* post-hook would have put -1
C21_Witness ==
    \E t \in Tracees, j \in 2..Len(syscalls) :
        /\ syscalls[j].name = syscalls[1].name
        /\ tracee[t].stop = "user"
        /\ hist[t].pre_sc = 1
        /\ hist[t].pre.kind = "PackedArgs"
        /\ hist[t].post_sc = 1
        /\ hist[t].kret = Zero
        /\ tracee[t].regs.rax = Zero
        /\ post(syscalls[j], hist[t].kret) # Zero

\* kernel interactions that fail

\* run has returned an error
Failed == run_state \in {"read_failed", "flush_failed"}

\* C24: when the registers of a stopped task cannot be read, run returns the error
\* and nothing else happens in that step: no hook runs, block_calls is as it was,
\* the task stays at its stop; when they cannot be flushed, run returns the error
\* and the task stays at its stop with the registers it had; after either, no
\* stop is handled: no closure runs, block_calls does not change, a stopped task
\* stays stopped, and run's outcome stays the error
C24_FailureStopsRun ==
    [][/\ (run_state = "running" /\ run_state' = "read_failed") =>
                UNCHANGED <<tracee, hist, block_calls, mem, remote_mem>>
       /\ (run_state = "running" /\ run_state' = "flush_failed") =>
                UNCHANGED tracee
       /\ Failed =>
            /\ run_state' = run_state
            /\ block_calls' = block_calls
            /\ \A t \in Tracees :
                    /\ Stopped(t) => Untouched(t)
                    /\ hist'[t].pre = hist[t].pre
                    /\ hist'[t].pre_sc = hist[t].pre_sc
                    /\ hist'[t].post_sc = hist[t].post_sc
                    /\ hist'[t].exit = hist[t].exit]_vars

\* run has returned the error of a register read at the entry stop of a getpid,
\* which has a descriptor: its hook has not run, and the stop of the other task
\* waits unhandled
C24_Witness ==
    /\ run_state = "read_failed"
    /\ \E t, u \in Tracees :
            /\ t # u
            /\ tracee[t].stop = "SyscallEnter"
            /\ tracee[t].regs.orig_rax = 39
            /\ hist[t].pre.kind = "None"
            /\ tracee[u].stop = "SyscallExit"
            /\ hist[u].exit = "none"

====
